---- MODULE Spec2Model ----
(***************************************************************************)
(* Model of the two provisioning scripts create_github_repos.py            *)
(* (Pipeline A) and grant_read_access.py (Pipeline B): the spreadsheet     *)
(* parsers, the provisioning helpers and the two main() drivers, run       *)
(* against a remote platform whose calls may fail.                         *)
(*                                                                         *)
(* Text is a sequence of one-character strings; a cell of the data frame   *)
(* is a record [kind, s] whose kind is "none" (row.get found no such       *)
(* column), "nan" (an empty cell) or "str" (a text cell with text s).      *)
(***************************************************************************)
EXTENDS Integers, Sequences, FiniteSets, TLC

\* ------------------------------------------------------------------------
\* Bounds of the model
\* ------------------------------------------------------------------------
\* rows of the frame in a run of Pipeline A, of Pipeline B, of a parser alone
MaxTeamRows == 2

MaxAccessRows == 3

MaxParseRows == 2

\* platform calls that fail by a fault of the platform in one run
MaxFaults == 1

\* ------------------------------------------------------------------------
\* Program constants
\* ------------------------------------------------------------------------
NUM_TEAMS == 8

\* ------------------------------------------------------------------------
\* Text
\* ------------------------------------------------------------------------
UpperCase == <<"A","B","C","D","E","F","G","H","I","J","K","L","M",
               "N","O","P","Q","R","S","T","U","V","W","X","Y","Z">>

LowerCase == <<"a","b","c","d","e","f","g","h","i","j","k","l","m",
               "n","o","p","q","r","s","t","u","v","w","x","y","z">>

DigitChars == <<"0","1","2","3","4","5","6","7","8","9">>

\* str.lower() on one character
LowerChar(c) ==
    IF \E i \in 1..26 : UpperCase[i] = c
    THEN LowerCase[CHOOSE i \in 1..26 : UpperCase[i] = c]
    ELSE c

\* str.lower()
Lower(s) == [i \in 1..Len(s) |-> LowerChar(s[i])]

\* the characters str.strip() removes and the regex class \s matches
IsSpace(c) == c \in {" ", "\t", "\n", "\r"}

\* the regex class \d
IsDigit(c) == \E i \in 1..10 : DigitChars[i] = c

DigitVal(c) == (CHOOSE i \in 1..10 : DigitChars[i] = c) - 1

\* str.strip(): drop the leading and the trailing whitespace
Strip(s) ==
    IF \A i \in 1..Len(s) : IsSpace(s[i])
    THEN << >>
    ELSE LET lo == CHOOSE i \in 1..Len(s) :
                       /\ ~IsSpace(s[i])
                       /\ \A j \in 1..(i-1) : IsSpace(s[j])
             hi == CHOOSE i \in 1..Len(s) :
                       /\ ~IsSpace(s[i])
                       /\ \A j \in (i+1)..Len(s) : IsSpace(s[j])
         IN  SubSeq(s, lo, hi)

\* str.replace(c, ''): drop every occurrence of the character c
RECURSIVE Remove(_, _)
Remove(s, c) ==
    IF s = << >> THEN << >>
    ELSE IF Head(s) = c THEN Remove(Tail(s), c)
         ELSE <<Head(s)>> \o Remove(Tail(s), c)

\* int() of a run of decimal digits
RECURSIVE IntOf(_)
IntOf(ds) ==
    IF ds = << >> THEN 0
    ELSE 10 * IntOf(SubSeq(ds, 1, Len(ds) - 1)) + DigitVal(ds[Len(ds)])

\* str() of a natural number, as an f-string formats it
RECURSIVE StrOfInt(_)
StrOfInt(n) ==
    IF n < 10 THEN <<DigitChars[n + 1]>>
    ELSE StrOfInt(n \div 10) \o <<DigitChars[(n % 10) + 1]>>

\* ------------------------------------------------------------------------
\* Cells and rows of the data frame
\* ------------------------------------------------------------------------
NoneCell == [kind |-> "none", s |-> << >>]

NaNCell == [kind |-> "nan", s |-> << >>]

StrCell(t) == [kind |-> "str", s |-> t]

\* pd.isna(): true of a missing cell and of None
IsNa(c) == c.kind \in {"none", "nan"}

\* Python truth value of a cell: None and the empty text are false, and
\* NaN (a non-zero float) is true
Truthy(c) == \/ c.kind = "nan"
             \/ c.kind = "str" /\ c.s # << >>

\* row.get(name): the cell of the column, None when the frame has no such column
RowGet(row, name) == IF name \in DOMAIN row THEN row[name] ELSE NoneCell

\* row.get(a1) or row.get(a2) or ...: the first true operand, else the last one
RECURSIVE OrChain(_, _)
OrChain(row, aliases) ==
    IF Len(aliases) = 1 THEN RowGet(row, aliases[1])
    ELSE IF Truthy(RowGet(row, aliases[1])) THEN RowGet(row, aliases[1])
         ELSE OrChain(row, Tail(aliases))

\* str(cell) of a cell that is not missing
StrOf(c) == c.s

\* ------------------------------------------------------------------------
\* Optional values: None is << >>, a value v is <<v>>
\* ------------------------------------------------------------------------
None == << >>

Some(v) == <<v>>

\* ------------------------------------------------------------------------
\* The identifier clean-up shared by both parsers
\* ------------------------------------------------------------------------
\* github_id_str is kept when it is not empty and not "nan"
ValidIdStr(github_id_str) ==
    /\ github_id_str # << >>
    /\ Lower(github_id_str) # <<"n","a","n">>

\* github_id_str.replace('@', '').replace(' ', '')
CleanId(github_id_str) == Remove(Remove(github_id_str, "@"), " ")

\* ------------------------------------------------------------------------
\* Pipeline A parser: read_teams_from_excel
\* ------------------------------------------------------------------------
TeamAliasesA == <<"Team", "team", "Unnamed: 0">>

IdAliasesA == <<"GITHUB ID", "GitHub ID", "github_id">>

\* does Lower(s) carry the text "team" starting at position i
TeamAt(s, i) ==
    /\ i + 3 <= Len(s)
    /\ Lower(SubSeq(s, i, i + 3)) = <<"t","e","a","m">>

\* first position after position i that is not whitespace
RECURSIVE SkipSpace(_, _)
SkipSpace(s, i) ==
    IF i <= Len(s) /\ IsSpace(s[i]) THEN SkipSpace(s, i + 1) ELSE i

\* last position of the run of digits that starts at position i
RECURSIVE DigitsEnd(_, _)
DigitsEnd(s, i) ==
    IF i + 1 <= Len(s) /\ IsDigit(s[i + 1]) THEN DigitsEnd(s, i + 1) ELSE i

\* does team\s*(\d+) match at position i
MatchAt(s, i) ==
    /\ TeamAt(s, i)
    /\ SkipSpace(s, i + 4) <= Len(s)
    /\ IsDigit(s[SkipSpace(s, i + 4)])

\* re.search(r'team\s*(\d+)', s, re.IGNORECASE): None, or group(1) of the
\* leftmost match
TeamSearch(s) ==
    IF \E i \in 1..Len(s) : MatchAt(s, i)
    THEN LET i == CHOOSE k \in 1..Len(s) :
                      MatchAt(s, k) /\ \A j \in 1..(k-1) : ~MatchAt(s, j)
             d == SkipSpace(s, i + 4)
         IN  Some(SubSeq(s, d, DigitsEnd(s, d)))
    ELSE None

\* 'team' in team_str.lower()
ContainsTeam(s) == \E i \in 1..Len(s) : TeamAt(s, i)

\* NextTeam that forgets the team when the cell has no team number
NextTeam_ResetOnMismatch(current_team, team) ==
    IF ~IsNa(team)
    THEN LET team_str == Strip(StrOf(team))
         IN  IF ContainsTeam(team_str) /\ TeamSearch(team_str) # None
             THEN Some(IntOf(TeamSearch(team_str)[1]))
             ELSE None
    ELSE current_team

\* lines 43-50: current_team after the team cell of the row
NextTeam(current_team, team) ==
    IF ~IsNa(team)
    THEN LET team_str == Strip(StrOf(team))
         IN  IF ContainsTeam(team_str) /\ TeamSearch(team_str) # None
             THEN Some(IntOf(TeamSearch(team_str)[1]))
             ELSE current_team
    ELSE current_team

\* Python truth value of current_team: None and 0 are false
TeamTruthy(current_team) == current_team # None /\ current_team[1] # 0

\* teams[k].append(v), creating teams[k] first when k is not a key
AppendTo(teams, k, v) ==
    [j \in (DOMAIN teams) \cup {k} |->
        IF j = k
        THEN (IF k \in DOMAIN teams THEN teams[k] ELSE << >>) \o <<v>>
        ELSE teams[j]]

\* NextTeams without the test of current_team: a member row is stored even
\* when no team has been seen (under team 0)
NextTeams_NoTeamCheck(teams, current_team, github_id) ==
    IF ~IsNa(github_id)
    THEN LET github_id_str == Strip(StrOf(github_id))
         IN  IF ValidIdStr(github_id_str)
             THEN AppendTo(teams, IF current_team = None THEN 0 ELSE current_team[1],
                           CleanId(github_id_str))
             ELSE teams
    ELSE teams

\* lines 52-61: teams after the identifier cell of the row
NextTeams(teams, current_team, github_id) ==
    IF TeamTruthy(current_team) /\ ~IsNa(github_id)
    THEN LET github_id_str == Strip(StrOf(github_id))
         IN  IF ValidIdStr(github_id_str)
             THEN AppendTo(teams, current_team[1], CleanId(github_id_str))
             ELSE teams
    ELSE teams

\* ------------------------------------------------------------------------
\* Pipeline B parser: read_access_list_from_excel
\* ------------------------------------------------------------------------
RepoAliasesB == <<"Repository", "repository", "Repo", "repo", "Repo Name", "repo name">>

IdAliasesB == <<"GITHUB ID", "GitHub ID", "github_id", "github id", "GithubID", "githubid">>

\* the roster of Pipeline B is a dict in insertion order: a sequence of
\* entries [name, users]
HasKey(repo_access, name) == \E i \in 1..Len(repo_access) : repo_access[i].name = name

KeyIndex(repo_access, name) == CHOOSE i \in 1..Len(repo_access) : repo_access[i].name = name

UsersOf(repo_access, name) == repo_access[KeyIndex(repo_access, name)].users

InList(list, v) == \E i \in 1..Len(list) : list[i] = v

\* lines 44-49: does the repository cell of the row name a repository
SetsRepo(repo) ==
    /\ ~IsNa(repo)
    /\ Strip(StrOf(repo)) # << >>
    /\ Lower(Strip(StrOf(repo))) # <<"n","a","n">>

\* lines 44-47: current_repo after the repository cell of the row
NextRepo(current_repo, repo) ==
    IF SetsRepo(repo) THEN Some(Strip(StrOf(repo))) ELSE current_repo

\* lines 48-49: the key is registered with an empty list
Register(repo_access, repo) ==
    IF SetsRepo(repo) /\ ~HasKey(repo_access, Strip(StrOf(repo)))
    THEN Append(repo_access, [name |-> Strip(StrOf(repo)), users |-> << >>])
    ELSE repo_access

\* NextAccess without the membership test: every valid identifier is appended
NextAccess_NoDedup(repo_access, current_repo, github_id) ==
    IF current_repo # None /\ current_repo[1] # << >> /\ ~IsNa(github_id)
    THEN LET github_id_str == Strip(StrOf(github_id))
             k == KeyIndex(repo_access, current_repo[1])
         IN  IF ValidIdStr(github_id_str)
             THEN [repo_access EXCEPT ![k].users = Append(@, CleanId(github_id_str))]
             ELSE repo_access
    ELSE repo_access

\* lines 52-59: repo_access after the identifier cell of the row
NextAccess(repo_access, current_repo, github_id) ==
    IF current_repo # None /\ current_repo[1] # << >> /\ ~IsNa(github_id)
    THEN LET github_id_str == Strip(StrOf(github_id))
             github_id_clean == CleanId(github_id_str)
             k == KeyIndex(repo_access, current_repo[1])
         IN  IF ValidIdStr(github_id_str) /\ ~InList(repo_access[k].users, github_id_clean)
             THEN [repo_access EXCEPT ![k].users = Append(@, github_id_clean)]
             ELSE repo_access
    ELSE repo_access

\* ------------------------------------------------------------------------
\* Names used by the inputs of the model
\* ------------------------------------------------------------------------
alice == <<"a","l","i","c","e">>

bob == <<"b","o","b">>

carol == <<"c","a","r","o","l">>

Team1 == <<"T","e","a","m"," ","1">>

team2 == <<"t","e","a","m","2">>

ClientPrefix == <<"C","l","i","e","n","t">>

DesignerPrefix == <<"D","e","s","i","g","n","e","r">>

Client1 == ClientPrefix \o <<"1">>

Client2 == ClientPrefix \o <<"2">>

\* f"Client{team_num}" and f"Designer{team_num}"
RepoName(kind, n) ==
    (IF kind = "client" THEN ClientPrefix ELSE DesignerPrefix) \o StrOfInt(n)

\* ------------------------------------------------------------------------
\* State
\* ------------------------------------------------------------------------
VARIABLES
    pipeline,        \* "A": create_github_repos.py, "B": grant_read_access.py
    pc,              \* position of the run
    token,           \* is GITHUB_TOKEN set to a non-empty value
    header,          \* df.columns of the frame that pd.read_excel returned
    nrows,           \* len(df): the number of rows of the frame
    index,           \* number of rows that df.iterrows() has handed out
    row,             \* the row being processed, None before the first one
    current_team,    \* Pipeline A parser: None or Some(team number)
    teams,           \* Pipeline A roster: team number -> list of identifiers
    current_repo,    \* Pipeline B parser: None or Some(repository name)
    repo_access,     \* Pipeline B roster: entries [name, users] in insertion order
    team_num,        \* Pipeline A driver: loop variable of range(1, NUM_TEAMS + 1)
    kind,            \* Pipeline A driver: "client" or "designer" repository
    item,            \* Pipeline B driver: position in repo_access.items()
    member,          \* position in the member loop of the current repository
    repo,            \* handle of the repository being provisioned, or None
    result,          \* return value of the last grant (add_collaborator / grant_read_access)
    success_count,   \* Pipeline B driver
    successful_repos,\* Pipeline B driver
    failed_repos,    \* Pipeline B driver
    repos,           \* platform: name -> does the repository exist, for the names touched so far
    level,           \* platform: <<repository, user>> -> permission level, for the pairs touched so far
    faults,          \* number of platform calls that failed by a fault of the platform
    trace            \* platform calls, sleeps and printed messages, in order

vars == <<pipeline, pc, token, header, nrows, index, row, current_team, teams,
          current_repo, repo_access, team_num, kind, item, member, repo, result,
          success_count, successful_repos, failed_repos, repos, level, faults, trace>>

parserVars == <<header, nrows, index, row, current_team, teams, current_repo, repo_access>>

driverVars == <<team_num, kind, item, member, repo, result,
                success_count, successful_repos, failed_repos>>

platformVars == <<repos, level, faults>>

\* ------------------------------------------------------------------------
\* Events of the trace
\* ------------------------------------------------------------------------
Call(op, name, user, arg, res) ==
    [op |-> op, repo |-> name, user |-> user, arg |-> arg, res |-> res]

Say(msg, name, user) == Call("print", name, user, msg, "")

\* a printed message that ends with the text of the exception e: f"...: {e}"
SayError(msg, name, user, e) == Call("print", name, user, msg, e)

Sleep(secs) == Call("sleep", << >>, << >>, secs, "")

Failed(res) == res \in {"401", "404", "422", "500"}

\* ------------------------------------------------------------------------
\* The platform
\* ------------------------------------------------------------------------
Levels == {"none", "read", "write", "maintain", "admin"}

\* permission names of add_to_collaborators and the level each one grants
LevelOf(permission) ==
    CASE permission = "pull" -> "read"
      [] permission = "push" -> "write"
      [] OTHER -> permission

\* the repositories that may exist in the organization before the run; every
\* other name is free
PreExisting == {Client1, Client2}

\* the existence of a repository: what the platform has shown so far; for a
\* name not touched yet, either answer if it may exist before the run and
\* FALSE otherwise
MayExist(name) ==
    IF name \in DOMAIN repos THEN {repos[name]}
    ELSE IF name \in PreExisting THEN BOOLEAN ELSE {FALSE}

\* the users that may hold a level on a repository before the run; every
\* other user starts with no access record
Holders == {alice}

\* the level a user holds: what the platform has shown so far; for a pair not
\* touched yet, any level if the user is a holder and "none" otherwise
MayHold(name, user) ==
    IF <<name, user>> \in DOMAIN level THEN {level[<<name, user>>]}
    ELSE IF user \in Holders THEN Levels ELSE {"none"}

SetRepo(name, e) == [n \in (DOMAIN repos) \cup {name} |-> IF n = name THEN e ELSE repos[n]]

SetLevel(name, user, l) ==
    [p \in (DOMAIN level) \cup {<<name, user>>} |->
        IF p = <<name, user>> THEN l ELSE level[p]]

\* number of faults among the outcomes fs
RECURSIVE CountFaults(_)
CountFaults(fs) ==
    IF fs = << >> THEN 0
    ELSE (IF Head(fs) = "ok" THEN 0 ELSE 1) + CountFaults(Tail(fs))

\* org.create_repo(name): 422 when the repository exists, else it is created
CreateRepoRes(e, f) == IF f # "ok" THEN f ELSE IF e THEN "422" ELSE "ok"

\* org.get_repo(name): 404 when the repository does not exist
GetRepoRes(e, f) == IF f # "ok" THEN f ELSE IF e THEN "ok" ELSE "404"

\* ------------------------------------------------------------------------
\* The provisioning helpers.  Each one is the function of the source as a
\* value: the events it adds to the trace, what it returns, whether it lets an
\* exception escape, and the platform state it leaves.
\* ------------------------------------------------------------------------

\* create_repository that hands back a handle when create_repo failed
create_repository_AlwaysHandle(repo_name, e, f, g) ==
    LET c == CreateRepoRes(e, f)
        r == GetRepoRes(e, g)
    IN  CASE c = "ok" ->
               [events |-> << Call("create_repo", repo_name, << >>, "private", "ok"),
                              Say("created", repo_name, << >>) >>,
                ret    |-> Some(repo_name),
                raised |-> FALSE,
                repos  |-> SetRepo(repo_name, TRUE)]
          [] c = "422" ->
               [events |-> << Call("create_repo", repo_name, << >>, "private", "422"),
                              Say("already_exists", repo_name, << >>),
                              Call("get_repo", repo_name, << >>, "", r) >>,
                ret    |-> IF r = "ok" THEN Some(repo_name) ELSE None,
                raised |-> r # "ok",
                repos  |-> IF r = "ok" THEN SetRepo(repo_name, TRUE) ELSE repos]
          [] OTHER ->
               [events |-> << Call("create_repo", repo_name, << >>, "private", c),
                              SayError("create_error", repo_name, << >>, c) >>,
                ret    |-> Some(repo_name),
                raised |-> FALSE,
                repos  |-> repos]

\* create_repository that does not fetch the repository after the conflict
create_repository_NoFetch(repo_name, e, f, g) ==
    LET c == CreateRepoRes(e, f)
    IN  IF c = "ok"
        THEN [events |-> << Call("create_repo", repo_name, << >>, "private", "ok"),
                            Say("created", repo_name, << >>) >>,
              ret    |-> Some(repo_name),
              raised |-> FALSE,
              repos  |-> SetRepo(repo_name, TRUE)]
        ELSE [events |-> << Call("create_repo", repo_name, << >>, "private", c),
                            SayError("create_error", repo_name, << >>, c) >>,
              ret    |-> None,
              raised |-> FALSE,
              repos  |-> repos]

\* create_repository(g, org, repo_name, description)
\*   e: does the repository exist, f: fault of create_repo, g: fault of get_repo
create_repository(repo_name, e, f, g) ==
    LET c == CreateRepoRes(e, f)
        r == GetRepoRes(e, g)
    IN  CASE c = "ok" ->
               [events |-> << Call("create_repo", repo_name, << >>, "private", "ok"),
                              Say("created", repo_name, << >>) >>,
                ret    |-> Some(repo_name),
                raised |-> FALSE,
                repos  |-> SetRepo(repo_name, TRUE)]
          [] c = "422" /\ r = "ok" ->
               [events |-> << Call("create_repo", repo_name, << >>, "private", "422"),
                              Say("already_exists", repo_name, << >>),
                              Call("get_repo", repo_name, << >>, "", "ok") >>,
                ret    |-> Some(repo_name),
                raised |-> FALSE,
                repos  |-> SetRepo(repo_name, TRUE)]
          [] c = "422" /\ r # "ok" ->
               [events |-> << Call("create_repo", repo_name, << >>, "private", "422"),
                              Say("already_exists", repo_name, << >>),
                              Call("get_repo", repo_name, << >>, "", r) >>,
                ret    |-> None,
                raised |-> TRUE,
                repos  |-> repos]
          [] OTHER ->
               [events |-> << Call("create_repo", repo_name, << >>, "private", c),
                              SayError("create_error", repo_name, << >>, c) >>,
                ret    |-> None,
                raised |-> FALSE,
                repos  |-> repos]

\* add_collaborator(repo, github_username, permission)
\*   f: fault of add_to_collaborators
add_collaborator(repo_name, github_username, permission, f) ==
    IF f = "ok"
    THEN [events |-> << Call("add_to_collaborators", repo_name, github_username, permission, "ok"),
                        Say("added", repo_name, github_username),
                        Sleep("0.5") >>,
          ret    |-> TRUE,
          level  |-> SetLevel(repo_name, github_username, LevelOf(permission))]
    ELSE [events |-> << Call("add_to_collaborators", repo_name, github_username, permission, f),
                        SayError("add_error", repo_name, github_username, f) >>,
          ret    |-> FALSE,
          level  |-> level]

\* the skip list without 'write'
Sufficient_NoWrite == {"admin", "read"}

\* the levels that make grant_read_access skip the grant
Sufficient == {"admin", "write", "read"}

\* grant_read_access(repo, github_username)
\*   l: the level the user holds, q: fault of get_collaborator_permission,
\*   f: fault of add_to_collaborators
grant_read_access(repo_name, github_username, l, q, f) ==
    LET permission == IF q = "ok" THEN l ELSE q
        query == Call("get_collaborator_permission", repo_name, github_username, "", permission)
        seen == IF q = "ok" THEN SetLevel(repo_name, github_username, l) ELSE level
    IN  IF q = "ok" /\ permission \in Sufficient
        THEN [events |-> << query, Say("already_has", repo_name, github_username) >>,
              ret    |-> TRUE,
              level  |-> seen]
        ELSE IF f = "ok"
        THEN [events |-> << query,
                            Call("add_to_collaborators", repo_name, github_username, "pull", "ok"),
                            Say("granted", repo_name, github_username),
                            Sleep("0.5") >>,
              ret    |-> TRUE,
              level  |-> SetLevel(repo_name, github_username, LevelOf("pull"))]
        ELSE [events |-> << query,
                            Call("add_to_collaborators", repo_name, github_username, "pull", f),
                            IF f = "404"
                            THEN Say("user_not_found", repo_name, github_username)
                            ELSE SayError("grant_error", repo_name, github_username, f) >>,
              ret    |-> FALSE,
              level  |-> seen]

\* ------------------------------------------------------------------------
\* Inputs
\* ------------------------------------------------------------------------
\* the rows over the columns h whose group cells come from groupCells and
\* whose identifier cells come from idCells
RowsOver(h, groupAliases, groupCells, idCells) ==
    LET G == { c \in h : \E i \in 1..Len(groupAliases) : groupAliases[i] = c }
    IN  { [c \in h |-> IF c \in G THEN g[c] ELSE d[c]] :
            g \in [G -> groupCells], d \in [h \ G -> idCells] }

HeadersA == { {"Team", "GITHUB ID"} }

HeadersB == { {"Repository", "GITHUB ID"} }

TeamCells == { NaNCell, StrCell(Team1), StrCell(team2) }

IdCellsA == { NaNCell, StrCell(alice), StrCell(bob) }

RepoCells == { NaNCell, StrCell(Client1), StrCell(Client2) }

IdCellsB == { NaNCell, StrCell(alice), StrCell(carol) }

RowsA(h) == RowsOver(h, TeamAliasesA, TeamCells, IdCellsA)

RowsB(h) == RowsOver(h, RepoAliasesB, RepoCells, IdCellsB)

\* ------------------------------------------------------------------------
\* Initial state
\* ------------------------------------------------------------------------
InitCommon ==
    /\ pipeline \in {"A", "B"}
    /\ index = 0
    /\ row = << >>
    /\ current_team = None
    /\ teams = << >>
    /\ current_repo = None
    /\ repo_access = << >>
    /\ team_num = 0
    /\ kind = "client"
    /\ item = 0
    /\ member = 0
    /\ repo = None
    /\ result = TRUE
    /\ success_count = 0
    /\ successful_repos = 0
    /\ failed_repos = << >>
    /\ level = << >>
    /\ faults = 0
    /\ trace = << >>

Init ==
    /\ InitCommon
    /\ pc = "start"
    /\ token \in BOOLEAN
    /\ header = {}
    /\ nrows = 0
    /\ repos = << >>

\* ------------------------------------------------------------------------
\* main(): the preconditions
\* ------------------------------------------------------------------------
\* CheckToken that prints the instructions and goes on
CheckToken_GoesOn ==
    /\ pc = "start"
    /\ pc' = "auth"
    /\ trace' = IF token THEN trace ELSE Append(trace, Say("token_missing", << >>, << >>))
    /\ UNCHANGED <<pipeline, token, parserVars, driverVars, platformVars>>

\* if not GITHUB_TOKEN: print the instructions and return
CheckToken ==
    /\ pc = "start"
    /\ IF token
       THEN pc' = "auth" /\ trace' = trace
       ELSE pc' = "returned" /\ trace' = Append(trace, Say("token_missing", << >>, << >>))
    /\ UNCHANGED <<pipeline, token, parserVars, driverVars, platformVars>>

\* g = Github(GITHUB_TOKEN); user = g.get_user()
Authenticate ==
    /\ pc = "auth"
    /\ \E f \in {"ok", "401"} :
         /\ faults + CountFaults(<<f>>) <= MaxFaults
         /\ faults' = faults + CountFaults(<<f>>)
         /\ trace' = trace \o << Call("get_user", << >>, << >>, "", f),
                                 IF f = "ok" THEN Say("authenticated", << >>, << >>)
                                 ELSE SayError("auth_failed", << >>, << >>, f) >>
         /\ pc' = IF f = "ok" THEN "org" ELSE "returned"
    /\ UNCHANGED <<pipeline, token, parserVars, driverVars, repos, level>>

\* org = g.get_organization(ORG_NAME)
GetOrganization ==
    /\ pc = "org"
    /\ \E f \in {"ok", "404"} :
         /\ faults + CountFaults(<<f>>) <= MaxFaults
         /\ faults' = faults + CountFaults(<<f>>)
         /\ trace' = trace \o << Call("get_organization", << >>, << >>, "", f),
                                 IF f = "ok" THEN Say("organization", << >>, << >>)
                                 ELSE SayError("org_error", << >>, << >>, f) >>
         /\ pc' = IF f = "ok" THEN "read" ELSE "returned"
    /\ UNCHANGED <<pipeline, token, parserVars, driverVars, repos, level>>

\* df = pd.read_excel(file_path): a frame with the columns h and n rows, or an
\* exception that Pipeline A lets escape from main() and Pipeline B turns into
\* a return
ReadExcel(h, n) ==
    /\ pc = "read"
    /\ \E ok \in BOOLEAN :
         /\ header' = IF ok THEN h ELSE header
         /\ nrows' = IF ok THEN n ELSE nrows
         /\ trace' = trace \o << Say("reading", << >>, << >>),
                                 Say(IF ok THEN "columns" ELSE "read_error", << >>, << >>) >>
         /\ pc' = IF ok THEN "rows" ELSE IF pipeline = "A" THEN "read_raised" ELSE "returned"
    /\ UNCHANGED <<pipeline, token, index, row, current_team, teams, current_repo,
                   repo_access, driverVars, platformVars>>

\* ------------------------------------------------------------------------
\* The parsers: one step of the loop over df.iterrows()
\* ------------------------------------------------------------------------
\* read_teams_from_excel, lines 37-61, on the row r
ParseRowA(r) ==
    /\ pipeline = "A"
    /\ pc = "rows"
    /\ index < nrows
    /\ LET team == OrChain(r, TeamAliasesA)
           github_id == OrChain(r, IdAliasesA)
       IN  /\ current_team' = NextTeam(current_team, team)
           /\ teams' = NextTeams(teams, current_team', github_id)
    /\ row' = r
    /\ index' = index + 1
    /\ UNCHANGED <<pipeline, pc, token, header, nrows, current_repo, repo_access,
                   driverVars, platformVars, trace>>

\* read_access_list_from_excel, lines 38-59, on the row r
ParseRowB(r) ==
    /\ pipeline = "B"
    /\ pc = "rows"
    /\ index < nrows
    /\ LET repo_cell == OrChain(r, RepoAliasesB)
           github_id == OrChain(r, IdAliasesB)
       IN  /\ current_repo' = NextRepo(current_repo, repo_cell)
           /\ repo_access' = NextAccess(Register(repo_access, repo_cell),
                                        current_repo', github_id)
    /\ row' = r
    /\ index' = index + 1
    /\ UNCHANGED <<pipeline, pc, token, header, nrows, current_team, teams,
                   driverVars, platformVars, trace>>

\* return teams / return repo_access: the rows are exhausted and the locals
\* of the parser (df, row, current_team, current_repo) go out of scope
Return ==
    /\ pc = "rows"
    /\ index = nrows
    /\ pc' = "parsed"
    /\ header' = {}
    /\ nrows' = 0
    /\ index' = 0
    /\ row' = << >>
    /\ current_team' = None
    /\ current_repo' = None
    /\ UNCHANGED <<pipeline, token, teams, repo_access, driverVars, platformVars, trace>>

\* ------------------------------------------------------------------------
\* main() of Pipeline A: the loop over range(1, NUM_TEAMS + 1)
\* ------------------------------------------------------------------------
\* the roster is printed and the loop starts
StartLoop ==
    /\ pc = "parsed"
    /\ pc' = "loop"
    /\ trace' = Append(trace, Say("found", << >>, << >>))
    /\ team_num' = IF pipeline = "A" THEN 1 ELSE team_num
    /\ item' = IF pipeline = "B" THEN 1 ELSE item
    /\ UNCHANGED <<pipeline, token, parserVars, kind, member, repo, result,
                   success_count, successful_repos, failed_repos, platformVars>>

\* the first team number from n on that the roster holds, NUM_TEAMS + 1 if none
NextPresent(n) ==
    IF \E m \in n..NUM_TEAMS : m \in DOMAIN teams
    THEN CHOOSE m \in n..NUM_TEAMS :
             m \in DOMAIN teams /\ \A j \in n..(m - 1) : j \notin DOMAIN teams
    ELSE NUM_TEAMS + 1

\* if team_num not in teams: warn and continue; the iterations over a run of
\* absent teams are taken in one step
SkipTeam ==
    /\ pipeline = "A"
    /\ pc = "loop"
    /\ team_num <= NUM_TEAMS
    /\ team_num \notin DOMAIN teams
    /\ trace' = trace \o [i \in 1..(NextPresent(team_num) - team_num) |->
                             Say("team_missing", StrOfInt(team_num + i - 1), << >>)]
    /\ team_num' = NextPresent(team_num)
    /\ UNCHANGED <<pipeline, pc, token, parserVars, kind, item, member, repo, result,
                   success_count, successful_repos, failed_repos, platformVars>>

\* team_members = teams[team_num]
EnterTeam ==
    /\ pipeline = "A"
    /\ pc = "loop"
    /\ team_num <= NUM_TEAMS
    /\ team_num \in DOMAIN teams
    /\ trace' = Append(trace, Say("processing", StrOfInt(team_num), << >>))
    /\ pc' = "create"
    /\ kind' = "client"
    /\ UNCHANGED <<pipeline, token, parserVars, team_num, item, member, repo, result,
                   success_count, successful_repos, failed_repos, platformVars>>

\* AfterMembers that goes to the pause after the Client repository
AfterMembers_SkipDesigner(k) == [pc |-> "team_sleep", kind |-> "designer"]

\* where the run goes when the member loop of a repository of kind k is over
\* (or is not entered): on to the Designer repository, or to the pause
AfterMembers(k) ==
    IF k = "client" THEN [pc |-> "create", kind |-> "designer"]
    ELSE [pc |-> "team_sleep", kind |-> "designer"]

\* client_repo = create_repository(...) / designer_repo = create_repository(...)
\* followed by "if client_repo:" / "if designer_repo:"
CreateRepository ==
    /\ pipeline = "A"
    /\ pc = "create"
    /\ LET repo_name == RepoName(kind, team_num)
       IN  \E e \in MayExist(repo_name), f \in {"ok", "500"}, g \in {"ok", "404", "500"} :
             LET out == create_repository(repo_name, e, f, g)
                 called == IF CreateRepoRes(e, f) = "422" THEN <<f, g>> ELSE <<f>>
             IN  /\ CreateRepoRes(e, f) # "422" => g = "ok"
                 /\ faults + CountFaults(called) <= MaxFaults
                 /\ faults' = faults + CountFaults(called)
                 /\ trace' = trace \o out.events
                 /\ repos' = out.repos
                 /\ repo' = out.ret
                 /\ IF out.raised
                    THEN pc' = "raised" /\ kind' = kind /\ member' = member
                    ELSE IF out.ret # None
                    THEN pc' = "members" /\ kind' = kind /\ member' = 1
                    ELSE /\ pc' = AfterMembers(kind).pc
                         /\ kind' = AfterMembers(kind).kind
                         /\ member' = member
    /\ UNCHANGED <<pipeline, token, parserVars, team_num, item, result,
                   success_count, successful_repos, failed_repos, level>>

\* AddCollaborator that leaves the member loop when an add fails
AddCollaborator_StopsOnFailure ==
    /\ pipeline = "A"
    /\ pc = "members"
    /\ member <= Len(teams[team_num])
    /\ \E f \in {"ok", "404", "500"} :
         LET out == add_collaborator(repo[1], teams[team_num][member], "push", f)
         IN  /\ faults + CountFaults(<<f>>) <= MaxFaults
             /\ faults' = faults + CountFaults(<<f>>)
             /\ trace' = trace \o out.events
             /\ level' = out.level
             /\ result' = out.ret
             /\ IF member < Len(teams[team_num]) /\ out.ret
                THEN member' = member + 1 /\ pc' = pc /\ kind' = kind
                ELSE /\ member' = member + 1
                     /\ pc' = AfterMembers(kind).pc
                     /\ kind' = AfterMembers(kind).kind
    /\ UNCHANGED <<pipeline, token, parserVars, team_num, item, repo,
                   success_count, successful_repos, failed_repos, repos>>

\* for member in team_members: add_collaborator(repo, member, permission='push')
AddCollaborator ==
    /\ pipeline = "A"
    /\ pc = "members"
    /\ member <= Len(teams[team_num])
    /\ \E f \in {"ok", "404", "500"} :
         LET out == add_collaborator(repo[1], teams[team_num][member], "push", f)
         IN  /\ faults + CountFaults(<<f>>) <= MaxFaults
             /\ faults' = faults + CountFaults(<<f>>)
             /\ trace' = trace \o out.events
             /\ level' = out.level
             /\ result' = out.ret
    /\ IF member < Len(teams[team_num])
       THEN member' = member + 1 /\ pc' = pc /\ kind' = kind
       ELSE /\ member' = member + 1
            /\ pc' = AfterMembers(kind).pc
            /\ kind' = AfterMembers(kind).kind
    /\ UNCHANGED <<pipeline, token, parserVars, team_num, item, repo,
                   success_count, successful_repos, failed_repos, repos>>

\* time.sleep(1) at the end of the loop body
TeamSleep ==
    /\ pipeline = "A"
    /\ pc = "team_sleep"
    /\ trace' = Append(trace, Sleep("1"))
    /\ team_num' = team_num + 1
    /\ pc' = "loop"
    /\ UNCHANGED <<pipeline, token, parserVars, kind, item, member, repo, result,
                   success_count, successful_repos, failed_repos, platformVars>>

\* the loop is over: the closing messages
FinishA ==
    /\ pipeline = "A"
    /\ pc = "loop"
    /\ team_num > NUM_TEAMS
    /\ trace' = Append(trace, Say("complete", << >>, << >>))
    /\ pc' = "done"
    /\ UNCHANGED <<pipeline, token, parserVars, driverVars, platformVars>>

\* ------------------------------------------------------------------------
\* main() of Pipeline B: the loop over repo_access.items()
\* ------------------------------------------------------------------------
total_repos == Len(repo_access)

\* repo = org.get_repo(repo_name); on failure the name is recorded and the
\* loop continues with the next repository
GetRepo ==
    /\ pipeline = "B"
    /\ pc = "loop"
    /\ item <= Len(repo_access)
    /\ LET repo_name == repo_access[item].name
       IN  \E e \in MayExist(repo_name), f \in {"ok", "404", "500"} :
             LET r == GetRepoRes(e, f)
             IN  /\ faults + CountFaults(<<f>>) <= MaxFaults
                 /\ faults' = faults + CountFaults(<<f>>)
                 /\ repos' = IF f = "ok" THEN SetRepo(repo_name, e) ELSE repos
                 /\ trace' = trace \o
                      << Say("processing", repo_name, << >>),
                         Call("get_repo", repo_name, << >>, "", r),
                         CASE r = "ok" -> Say("repo_found", repo_name, << >>)
                           [] r = "404" -> Say("repo_not_found", repo_name, << >>)
                           [] OTHER -> SayError("repo_error", repo_name, << >>, r) >>
                 /\ IF r = "ok"
                    THEN /\ repo' = Some(repo_name)
                         /\ pc' = "members"
                         /\ member' = 1
                         /\ success_count' = 0
                         /\ UNCHANGED <<failed_repos, item>>
                    ELSE /\ failed_repos' = Append(failed_repos, repo_name)
                         /\ item' = item + 1
                         /\ UNCHANGED <<repo, pc, member, success_count>>
    /\ UNCHANGED <<pipeline, token, parserVars, team_num, kind, result,
                   successful_repos, level>>

\* for github_id in users: if grant_read_access(repo, github_id): success_count += 1
GrantReadAccess ==
    /\ pipeline = "B"
    /\ pc = "members"
    /\ member <= Len(repo_access[item].users)
    /\ LET github_id == repo_access[item].users[member]
       IN  \E l \in MayHold(repo[1], github_id), q \in {"ok", "404", "500"},
              f \in {"ok", "404", "500"} :
             LET out == grant_read_access(repo[1], github_id, l, q, f)
                 added == \E i \in 1..Len(out.events) : out.events[i].op = "add_to_collaborators"
                 called == IF added THEN <<q, f>> ELSE <<q>>
             IN  /\ ~added => f = "ok"
                 /\ faults + CountFaults(called) <= MaxFaults
                 /\ faults' = faults + CountFaults(called)
                 /\ trace' = trace \o out.events
                 /\ level' = out.level
                 /\ result' = out.ret
                 /\ success_count' = IF out.ret THEN success_count + 1 ELSE success_count
    /\ member' = member + 1
    /\ UNCHANGED <<pipeline, pc, token, parserVars, team_num, kind, item, repo,
                   successful_repos, failed_repos, repos>>

\* after the member loop: count the repository, report, time.sleep(1)
EndRepo ==
    /\ pipeline = "B"
    /\ pc = "members"
    /\ member > Len(repo_access[item].users)
    /\ LET all == success_count = Len(repo_access[item].users)
       IN  /\ successful_repos' = IF all THEN successful_repos + 1 ELSE successful_repos
           /\ trace' = trace \o
                << Say(IF all THEN "all_granted" ELSE "partially_granted",
                       repo_access[item].name, << >>),
                   Sleep("1") >>
    /\ item' = item + 1
    /\ pc' = "loop"
    /\ UNCHANGED <<pipeline, token, parserVars, team_num, kind, member, repo, result,
                   success_count, failed_repos, platformVars>>

\* the loop is over: the summary with its three numbers (Total repositories,
\* Successful, Failed), then the failed repositories
FinishB ==
    /\ pipeline = "B"
    /\ pc = "loop"
    /\ item > Len(repo_access)
    /\ trace' = trace \o
         << Say("summary", << >>, << >>),
            Say("total", StrOfInt(total_repos), << >>),
            Say("successful", StrOfInt(successful_repos), << >>),
            Say("failed", StrOfInt(Len(failed_repos)), << >>) >> \o
         [i \in 1..Len(failed_repos) |-> Say("failed_repo", failed_repos[i], << >>)]
    /\ pc' = "done"
    /\ UNCHANGED <<pipeline, token, parserVars, driverVars, platformVars>>

\* ------------------------------------------------------------------------
\* The two scripts, each run once
\* ------------------------------------------------------------------------
Next ==
    \/ CheckToken
    \/ Authenticate
    \/ GetOrganization
    \/ pipeline = "A" /\ \E h \in HeadersA, n \in 0..MaxTeamRows : ReadExcel(h, n)
    \/ pipeline = "B" /\ \E h \in HeadersB, n \in 0..MaxAccessRows : ReadExcel(h, n)
    \/ pipeline = "A" /\ pc = "rows" /\ \E r \in RowsA(header) : ParseRowA(r)
    \/ pipeline = "B" /\ pc = "rows" /\ \E r \in RowsB(header) : ParseRowB(r)
    \/ Return
    \/ StartLoop
    \/ SkipTeam
    \/ EnterTeam
    \/ CreateRepository
    \/ AddCollaborator
    \/ TeamSleep
    \/ FinishA
    \/ GetRepo
    \/ GrantReadAccess
    \/ EndRepo
    \/ FinishB

Spec == Init /\ [][Next]_vars

\* ------------------------------------------------------------------------
\* The parsers alone, on a wider choice of cells
\* ------------------------------------------------------------------------
\* the frames have one column per field, or two columns whose names are
\* aliases of the same field
ParseHeadersA == { {"Team", "GITHUB ID"}, {"Team", "team", "GITHUB ID"} }

ParseHeadersB == { {"Repository", "GITHUB ID"}, {"Repository", "GITHUB ID", "GitHub ID"} }

TeamOnly == <<"T","e","a","m">>

B215 == <<"B","2","1","5">>

Team3B215 == <<"T","e","a","m"," ","3","-"," ">> \o B215

team12 == <<"t","e","a","m","1","2">>

team0 == <<"t","e","a","m"," ","0">>

ParseTeamCells ==
    { NaNCell,
      StrCell(Team1),
      StrCell(TeamOnly),
      StrCell(B215),
      StrCell(Team3B215),
      StrCell(team12),
      StrCell(team0) }

ParseRepoCells ==
    { NaNCell,
      StrCell(Client1),
      StrCell(<<" ">> \o Client2 \o <<" ">>),
      StrCell(<<"n","a","n">>),
      StrCell(<<" ">>) }

ParseIdCells ==
    { NaNCell,
      StrCell(alice),
      StrCell(<<" ","@">> \o alice \o <<" ">>),
      StrCell(<<"@">>),
      StrCell(<<"N","a","N">>),
      StrCell(<<"@","n","a","n">>),
      StrCell(<<"@","\t">> \o alice),
      StrCell(<<" "," ">>) }

\* the rows of a frame: the wide choice of cells when each field has one
\* column, the plain cells when a field has two
ParseRowsA(h) ==
    IF Cardinality(h) = 2 THEN RowsOver(h, TeamAliasesA, ParseTeamCells, ParseIdCells)
    ELSE RowsOver(h, TeamAliasesA, TeamCells, IdCellsA)

ParseRowsB(h) ==
    IF Cardinality(h) = 2 THEN RowsOver(h, RepoAliasesB, ParseRepoCells, ParseIdCells)
    ELSE RowsOver(h, RepoAliasesB, RepoCells, IdCellsB)

InitParse ==
    /\ InitCommon
    /\ pc = "rows"
    /\ token = TRUE
    /\ header \in (IF pipeline = "A" THEN ParseHeadersA ELSE ParseHeadersB)
    /\ nrows \in 0..MaxParseRows
    /\ repos = << >>

NextParse ==
    \/ pipeline = "A" /\ \E r \in ParseRowsA(header) : ParseRowA(r)
    \/ pipeline = "B" /\ \E r \in ParseRowsB(header) : ParseRowB(r)
    \/ Return

SpecParse == InitParse /\ [][NextParse]_vars

\* ------------------------------------------------------------------------
\* create_repository alone, called again and again on a fixed organization
\* ------------------------------------------------------------------------
MaxResolves == 3

ResolveNames == { Client1, DesignerPrefix \o <<"1">> }

Resolutions == Len(SelectSeq(trace, LAMBDA ev : ev.op = "create_repo"))

InitResolve ==
    /\ InitCommon
    /\ pipeline = "A"
    /\ pc = "resolve"
    /\ token = TRUE
    /\ header = {}
    /\ nrows = 0
    /\ repos \in [ResolveNames -> BOOLEAN]

\* one call of create_repository(g, org, repo_name, description)
Resolve(repo_name) ==
    /\ pc = "resolve"
    /\ Resolutions < MaxResolves
    /\ \E f \in {"ok", "500"}, g \in {"ok", "404", "500"} :
         LET e == repos[repo_name]
             out == create_repository(repo_name, e, f, g)
             called == IF CreateRepoRes(e, f) = "422" THEN <<f, g>> ELSE <<f>>
         IN  /\ CreateRepoRes(e, f) # "422" => g = "ok"
             /\ faults + CountFaults(called) <= MaxFaults
             /\ faults' = faults + CountFaults(called)
             /\ trace' = trace \o out.events
             /\ repos' = out.repos
             /\ repo' = out.ret
             /\ pc' = IF out.raised THEN "raised" ELSE "resolve"
    /\ UNCHANGED <<pipeline, token, parserVars, team_num, kind, item, member, result,
                   success_count, successful_repos, failed_repos, level>>

NextResolve == \E repo_name \in ResolveNames : Resolve(repo_name)

SpecResolve == InitResolve /\ [][NextResolve]_vars

\* ------------------------------------------------------------------------
\* The two grant helpers alone, called again and again on one repository
\* whose collaborators hold any levels, every call free to fail
\* ------------------------------------------------------------------------
MaxGrants == 2

GrantUsers == { alice, bob }

\* the call of a grant helper, written to the trace ahead of its events
Enter(name, user) == Call("grant", name, user, "", "")

Grants == Len(SelectSeq(trace, LAMBDA ev : ev.op = "grant"))

InitGrant ==
    /\ pipeline \in {"A", "B"}
    /\ pc = "grant"
    /\ token = TRUE
    /\ header = {}
    /\ nrows = 0
    /\ index = 0
    /\ row = << >>
    /\ current_team = None
    /\ teams = << >>
    /\ current_repo = None
    /\ repo_access = << >>
    /\ team_num = 0
    /\ kind = "client"
    /\ item = 0
    /\ member = 0
    /\ repo = Some(Client1)
    /\ result = TRUE
    /\ success_count = 0
    /\ successful_repos = 0
    /\ failed_repos = << >>
    /\ repos = [n \in {Client1} |-> TRUE]
    /\ level \in [{ <<Client1, u>> : u \in GrantUsers } -> Levels]
    /\ faults = 0
    /\ trace = << >>

\* one call of add_collaborator(repo, github_username, permission='push')
GrantPush(github_username) ==
    /\ pipeline = "A"
    /\ pc = "grant"
    /\ Grants < MaxGrants
    /\ \E f \in {"ok", "404", "500"} :
         LET out == add_collaborator(repo[1], github_username, "push", f)
         IN  /\ faults' = faults + CountFaults(<<f>>)
             /\ trace' = trace \o << Enter(repo[1], github_username) >> \o out.events
             /\ level' = out.level
             /\ result' = out.ret
    /\ UNCHANGED <<pipeline, pc, token, parserVars, team_num, kind, item, member, repo,
                   success_count, successful_repos, failed_repos, repos>>

\* one call of grant_read_access(repo, github_username)
GrantRead(github_username) ==
    /\ pipeline = "B"
    /\ pc = "grant"
    /\ Grants < MaxGrants
    /\ \E q \in {"ok", "404", "500"}, f \in {"ok", "404", "500"} :
         LET out == grant_read_access(repo[1], github_username,
                                      level[<<repo[1], github_username>>], q, f)
             added == \E i \in 1..Len(out.events) : out.events[i].op = "add_to_collaborators"
             called == IF added THEN <<q, f>> ELSE <<q>>
         IN  /\ ~added => f = "ok"
             /\ faults' = faults + CountFaults(called)
             /\ trace' = trace \o << Enter(repo[1], github_username) >> \o out.events
             /\ level' = out.level
             /\ result' = out.ret
    /\ UNCHANGED <<pipeline, pc, token, parserVars, team_num, kind, item, member, repo,
                   success_count, successful_repos, failed_repos, repos>>

NextGrant ==
    \/ \E u \in GrantUsers : GrantPush(u)
    \/ \E u \in GrantUsers : GrantRead(u)

SpecGrant == InitGrant /\ [][NextGrant]_vars

\* ------------------------------------------------------------------------
\* Reading the trace
\* ------------------------------------------------------------------------
IsCall(ev) == ev.op \notin {"print", "sleep"}

IsWork(ev) == ev.op \in {"create_repo", "get_repo", "add_to_collaborators",
                         "get_collaborator_permission"}

IsAdd(ev) == ev.op = "add_to_collaborators"

IsQuery(ev) == ev.op = "get_collaborator_permission"

\* the calls of one kind made on the repository name, in order
CallsOn(name, op) == SelectSeq(trace, LAMBDA ev : ev.op = op /\ ev.repo = name)

\* the users of a sequence of calls
UsersIn(calls) == [i \in 1..Len(calls) |-> calls[i].user]

\* a call without its outcome
Issued(ev) == [op |-> ev.op, repo |-> ev.repo, user |-> ev.user, arg |-> ev.arg]

\* was the repository name resolved to a handle: created or fetched (A), found (B)
Resolved(name) ==
    \E i \in 1..Len(trace) :
        /\ trace[i].repo = name
        /\ trace[i].res = "ok"
        /\ trace[i].op \in {"create_repo", "get_repo"}

\* the members the driver grants on the repository name
MembersOf(name) ==
    IF pipeline = "B" THEN UsersOf(repo_access, name)
    ELSE teams[CHOOSE n \in DOMAIN teams :
                   name \in {RepoName("client", n), RepoName("designer", n)}]

\* the grant attempts made on the repository name: add_collaborator calls
\* (A), grant_read_access calls (B), each of which starts with its platform call
Attempts(name) ==
    UsersIn(CallsOn(name, IF pipeline = "A" THEN "add_to_collaborators"
                          ELSE "get_collaborator_permission"))

\* ------------------------------------------------------------------------
\* C1.  In both parsers, as long as no row has set the current group, no
\* identifier is stored: a member row that comes before every group row is
\* dropped.
\* ------------------------------------------------------------------------
EarlyMembersDropped ==
    pc = "rows" =>
        /\ (pipeline = "A" /\ current_team = None) => DOMAIN teams = {}
        /\ (pipeline = "B" /\ current_repo = None) => repo_access = << >>

\* a valid member row has been processed while no team was set
EarlyMemberSeen ==
    /\ pc = "rows"
    /\ pipeline = "A"
    /\ index >= 1
    /\ current_team = None
    /\ ~IsNa(OrChain(row, IdAliasesA))
    /\ ValidIdStr(Strip(StrOf(OrChain(row, IdAliasesA))))

\* ------------------------------------------------------------------------
\* C2.  Every identifier stored in a roster is non-empty and is not the text
\* "nan" in any letter case.
\* ------------------------------------------------------------------------
AcceptableId(id) == id # << >> /\ Lower(id) # <<"n","a","n">>

StoredIdsValid ==
    /\ \A k \in DOMAIN teams : \A i \in 1..Len(teams[k]) : AcceptableId(teams[k][i])
    /\ \A k \in 1..Len(repo_access) :
          \A i \in 1..Len(repo_access[k].users) : AcceptableId(repo_access[k].users[i])

\* ------------------------------------------------------------------------
\* C3.  In Pipeline B no member list of the roster holds an identifier twice,
\* no identifier is evaluated twice on a repository, and when the run is done
\* every repository that was found has had exactly one grant evaluation per
\* identifier of its list.
\* ------------------------------------------------------------------------
NoDuplicateGrants ==
    pipeline = "B" =>
        \A k \in 1..Len(repo_access) :
            LET name == repo_access[k].name
                users == repo_access[k].users
                evals == Attempts(name)
            IN  /\ \A a, b \in 1..Len(users) : a # b => users[a] # users[b]
                /\ \A a, b \in 1..Len(evals) : a # b => evals[a] # evals[b]
                /\ (pc = "done" /\ Resolved(name)) =>
                      /\ Len(evals) = Cardinality({users[a] : a \in 1..Len(users)})
                      /\ \A a \in 1..Len(users) : InList(evals, users[a])

\* the run on the roster Client1: alice, carol is done, with two evaluations
TwoGrantsForTwoUsers ==
    /\ pipeline = "B"
    /\ pc = "done"
    /\ repo_access = << [name |-> Client1, users |-> <<alice, carol>>] >>
    /\ Len(Attempts(Client1)) = 2

\* ------------------------------------------------------------------------
\* C4.  grant_read_access: a permission query that answers read, write or
\* admin is followed by the skip message and by no add call for that user, and
\* the grant returns success; a query that fails or answers any other level is
\* followed at once by an add call with permission pull, the only add call for
\* that user on that repository.
\* ------------------------------------------------------------------------
AddsFor(name, user) ==
    Len(SelectSeq(trace, LAMBDA ev : IsAdd(ev) /\ ev.repo = name /\ ev.user = user))

SkipRule ==
    /\ \A i \in 1..Len(trace) :
          IsQuery(trace[i]) =>
              IF trace[i].res \in {"read", "write", "admin"}
              THEN /\ i < Len(trace)
                   /\ trace[i + 1] = Say("already_has", trace[i].repo, trace[i].user)
                   /\ AddsFor(trace[i].repo, trace[i].user) = 0
              ELSE /\ i < Len(trace)
                   /\ Issued(trace[i + 1]) =
                         [op |-> "add_to_collaborators", repo |-> trace[i].repo,
                          user |-> trace[i].user, arg |-> "pull"]
                   /\ AddsFor(trace[i].repo, trace[i].user) = 1
    /\ (trace # << >> /\ trace[Len(trace)].arg = "already_has") => result = TRUE

\* one run has skipped a holder of write and a holder of read, and has added
\* a user without access
SkipAndGrantSeen ==
    /\ \E i \in 1..Len(trace) : IsQuery(trace[i]) /\ trace[i].res = "write"
    /\ \E i \in 1..Len(trace) : IsQuery(trace[i]) /\ trace[i].res = "read"
    /\ \E i \in 1..(Len(trace) - 1) :
          /\ IsQuery(trace[i]) /\ trace[i].res = "none"
          /\ IsAdd(trace[i + 1]) /\ trace[i + 1].res = "ok"

RepoCalls(k, n) ==
    << [op |-> "create_repo", repo |-> RepoName(k, n), user |-> << >>, arg |-> "private"] >>
    \o [i \in 1..Len(teams[n]) |->
          [op |-> "add_to_collaborators", repo |-> RepoName(k, n),
           user |-> teams[n][i], arg |-> "push"]]

RECURSIVE ExpectedCalls(_)
ExpectedCalls(n) ==
    IF n > NUM_TEAMS THEN << >>
    ELSE (IF n \in DOMAIN teams
          THEN RepoCalls("client", n) \o RepoCalls("designer", n)
          ELSE << >>) \o ExpectedCalls(n + 1)

IssuedCalls ==
    LET calls == SelectSeq(trace, LAMBDA ev : ev.op = "create_repo" \/ IsAdd(ev))
    IN  [i \in 1..Len(calls) |-> Issued(calls[i])]

CallCountsA ==
    (pipeline = "A" /\ pc = "done" /\ faults = 0) => IssuedCalls = ExpectedCalls(1)

\* the run on the roster 1: alice, bob is done: two create calls, four add calls
TwoCreatesFourAdds ==
    /\ pipeline = "A"
    /\ pc = "done"
    /\ faults = 0
    /\ DOMAIN teams = {1}
    /\ teams[1] = <<alice, bob>>
    /\ Len(SelectSeq(trace, LAMBDA ev : ev.op = "create_repo")) = 2
    /\ Len(SelectSeq(trace, IsAdd)) = 4

\* ------------------------------------------------------------------------
\* C7.  No platform error escapes from the loop of a driver: whatever the
\* create-resource and get-resource calls answer, the run goes on to the
\* later resources and to its summary.
\* ------------------------------------------------------------------------
NoErrorEscapes == pc # "raised"

\* ------------------------------------------------------------------------
\* C8.  In both provisioners a grant is attempted for every member of a
\* resolved repository, in list order, whatever the outcome of the grants
\* before it: while the member loop of a repository runs its attempts are the
\* members before the current one, and afterwards they are the whole list.
\* ------------------------------------------------------------------------
RosterNames ==
    IF pipeline = "B" THEN { repo_access[k].name : k \in 1..Len(repo_access) }
    ELSE { RepoName(k, n) : k \in {"client", "designer"}, n \in DOMAIN teams }

AllMembersAttempted ==
    pc \in {"loop", "create", "members", "team_sleep", "raised", "done"} =>
        \A name \in RosterNames :
            Resolved(name) =>
                Attempts(name) =
                    IF pc = "members" /\ repo = Some(name)
                    THEN SubSeq(MembersOf(name), 1, member - 1)
                    ELSE MembersOf(name)

\* a grant failed and the grant for the next member of the list was attempted
GrantAfterFailure ==
    \E i, j \in 1..Len(trace) :
        /\ i < j
        /\ IsAdd(trace[i]) /\ Failed(trace[i].res)
        /\ IsAdd(trace[j]) /\ trace[j].repo = trace[i].repo
        /\ trace[j].user # trace[i].user

\* ------------------------------------------------------------------------
\* C9.  Precondition failures end the run before any work: without a token
\* no platform call is made at all; after a failed authentication, a failed
\* organization lookup or an input file that cannot be read, the run is over
\* and has made no create-resource, get-resource, add-collaborator or
\* permission-query call.
\* ------------------------------------------------------------------------
PreconditionsFatal ==
    /\ ~token => /\ pc \in {"start", "returned"}
                 /\ SelectSeq(trace, IsCall) = << >>
    /\ \A i \in 1..Len(trace) :
          ( \/ trace[i].op \in {"get_user", "get_organization"} /\ Failed(trace[i].res)
            \/ trace[i] = Say("read_error", << >>, << >>) )
          => ( /\ pc \in {"returned", "read_raised"}
               /\ SelectSeq(trace, IsWork) = << >> )

\* the run without a token has returned
ReturnedWithoutToken ==
    /\ ~token
    /\ pc = "returned"
    /\ trace = << Say("token_missing", << >>, << >>) >>

\* ------------------------------------------------------------------------
\* C10.  No grant is made on a repository that was not resolved: in Pipeline
\* A a create-resource call that fails with anything but the conflict is
\* followed by no add call on that repository; in Pipeline B a failed
\* get-resource call is followed by no permission query and no add call on
\* that repository, and the name is in failed_repos.
\* ------------------------------------------------------------------------
NoGrantOnUnresolved ==
    \A i \in 1..Len(trace) :
        /\ ( /\ pipeline = "A"
             /\ trace[i].op = "create_repo"
             /\ trace[i].res \notin {"ok", "422"} )
           => CallsOn(trace[i].repo, "add_to_collaborators") = << >>
        /\ ( /\ pipeline = "B"
             /\ trace[i].op = "get_repo"
             /\ Failed(trace[i].res) )
           => /\ CallsOn(trace[i].repo, "get_collaborator_permission") = << >>
              /\ CallsOn(trace[i].repo, "add_to_collaborators") = << >>
              /\ InList(failed_repos, trace[i].repo)

\* the run of Pipeline A is done after create_repo failed for Client1
CreateFailedNoAdds ==
    /\ pipeline = "A"
    /\ pc = "done"
    /\ 1 \in DOMAIN teams
    /\ \E i \in 1..Len(trace) :
          /\ trace[i].op = "create_repo"
          /\ trace[i].repo = Client1
          /\ trace[i].res = "500"

\* ------------------------------------------------------------------------
\* C11.  In both grant helpers the message printed for an add call that
\* failed with 404 (the user is not found) is another message than the one
\* printed for an add call that failed with any other status.
\* ------------------------------------------------------------------------
\* the message printed right after the failed add call at position i
ReportAfter(i) == trace[i + 1].arg

NotFoundReportedDistinctly ==
    \A i, j \in 1..(Len(trace) - 1) :
        ( /\ IsAdd(trace[i]) /\ trace[i].res = "404"
          /\ IsAdd(trace[j]) /\ Failed(trace[j].res) /\ trace[j].res # "404" )
        => ReportAfter(i) # ReportAfter(j)

\* ------------------------------------------------------------------------
\* C12.  In both parsers the group candidate and the member candidate of the
\* row just processed are the cell of the first alias, in alias order, whose
\* column holds a cell that is not missing; they are missing only when every
\* alias is missing.
\* ------------------------------------------------------------------------
\* the cell of the first alias whose cell is not missing, NaN when there is none
RECURSIVE FirstPresent(_, _)
FirstPresent(r, aliases) ==
    IF aliases = << >> THEN NaNCell
    ELSE IF ~IsNa(RowGet(r, Head(aliases))) THEN RowGet(r, Head(aliases))
         ELSE FirstPresent(r, Tail(aliases))

\* the candidate c that the parser took from the row r is the first present one
TakesFirstPresent(c, r, aliases) ==
    IF IsNa(FirstPresent(r, aliases)) THEN IsNa(c) ELSE c = FirstPresent(r, aliases)

AliasResolution ==
    (pc = "rows" /\ index >= 1) =>
        IF pipeline = "A"
        THEN /\ TakesFirstPresent(OrChain(row, TeamAliasesA), row, TeamAliasesA)
             /\ TakesFirstPresent(OrChain(row, IdAliasesA), row, IdAliasesA)
        ELSE /\ TakesFirstPresent(OrChain(row, RepoAliasesB), row, RepoAliasesB)
             /\ TakesFirstPresent(OrChain(row, IdAliasesB), row, IdAliasesB)

\* ------------------------------------------------------------------------
\* C13.  Pipeline A, a row whose team cell is read from the column Team: the
\* cell "Team 3- B215" sets the current team to 3 and "team12" sets it to 12;
\* the cells "Team" and "B215" and a missing cell leave it as it was; and the
\* current team changes only to the number written in the run of digits that
\* follows "team" (in any letter case) and optional whitespace in the cell.
\* ------------------------------------------------------------------------
\* the text s holds "team" at i, then whitespace up to d, then digits from d to e
TeamNumberAt(s, i, d, e) ==
    /\ i + 4 <= d /\ d <= e /\ e <= Len(s)
    /\ Lower(SubSeq(s, i, i + 3)) = Lower(TeamOnly)
    /\ \A k \in (i + 4)..(d - 1) : IsSpace(s[k])
    /\ \A k \in d..e : IsDigit(s[k])
    /\ e = Len(s) \/ ~IsDigit(s[e + 1])

TeamExtraction ==
    [][ ( /\ pipeline = "A"
          /\ pc = "rows"
          /\ index' = index + 1
          /\ DOMAIN row' = {"Team", "GITHUB ID"} )
        => LET c == row'["Team"]
           IN  /\ c = StrCell(Team3B215) => current_team' = Some(3)
               /\ c = StrCell(team12) => current_team' = Some(12)
               /\ c \in {StrCell(TeamOnly), StrCell(B215), NaNCell}
                     => current_team' = current_team
               /\ current_team' # current_team
                     => /\ c.kind = "str"
                        /\ \E i, d, e \in 1..Len(c.s) :
                              /\ TeamNumberAt(c.s, i, d, e)
                              /\ current_team' = Some(IntOf(SubSeq(c.s, d, e))) ]_vars

\* the team 3 is carried over a row whose team cell is "Team"
TeamCarriedOverTeamOnly ==
    /\ pipeline = "A"
    /\ pc = "rows"
    /\ index >= 2
    /\ DOMAIN row = {"Team", "GITHUB ID"}
    /\ row["Team"] = StrCell(TeamOnly)
    /\ current_team = Some(3)

\* ------------------------------------------------------------------------
\* C14.  Every identifier stored in a roster is in normal form: it holds no
\* '@' and no whitespace character, and cleaning it again (strip, then the
\* removal of '@' and of spaces) gives it back unchanged.
\* ------------------------------------------------------------------------
NormalForm(id) ==
    /\ \A i \in 1..Len(id) : id[i] # "@" /\ ~IsSpace(id[i])
    /\ CleanId(Strip(id)) = id

StoredIdsNormal ==
    /\ \A k \in DOMAIN teams : \A i \in 1..Len(teams[k]) : NormalForm(teams[k][i])
    /\ \A k \in 1..Len(repo_access) :
          \A i \in 1..Len(repo_access[k].users) : NormalForm(repo_access[k].users[i])

\* ------------------------------------------------------------------------
\* C15.  Every create-resource, get-resource, permission-query and
\* add-collaborator call that fails is followed at once, before any other
\* platform call, by a printed message about the failure on that repository.
\* ------------------------------------------------------------------------
FailureReports ==
    { "already_exists", "create_error", "add_error", "repo_not_found", "repo_error",
      "user_not_found", "grant_error" }

ErrorsReported ==
    \A i \in 1..Len(trace) :
        (IsWork(trace[i]) /\ Failed(trace[i].res)) =>
            /\ i < Len(trace)
            /\ trace[i + 1].op = "print"
            /\ trace[i + 1].arg \in FailureReports
            /\ trace[i + 1].repo = trace[i].repo

\* ------------------------------------------------------------------------
\* C16.  In both parsers, on frames with one column per field: a row with a
\* valid member cell, processed when a current group is set (by this row or
\* by a row before it; in Pipeline A whatever integer the team cell gave),
\* adds its cleaned identifier at the end of the list of the current group
\* (in Pipeline B unless the list holds it already) and changes no other list.
\* ------------------------------------------------------------------------
\* the member cell holds an identifier: not missing, and neither the stripped
\* text nor the cleaned text is empty or "nan"
ValidMember(c) ==
    /\ ~IsNa(c)
    /\ ValidIdStr(Strip(StrOf(c)))
    /\ AcceptableId(CleanId(Strip(StrOf(c))))

\* the list of the team k in the roster t, empty when k is not a key
ListOf(t, k) == IF k \in DOMAIN t THEN t[k] ELSE << >>

CarryForward ==
    [][ ( /\ pc = "rows"
          /\ index' = index + 1
          /\ Cardinality(DOMAIN row') = 2
          /\ ValidMember(row'["GITHUB ID"]) )
        => LET id == CleanId(Strip(StrOf(row'["GITHUB ID"])))
           IN  /\ (pipeline = "A" /\ current_team' # None) =>
                     /\ current_team'[1] \in DOMAIN teams'
                     /\ teams'[current_team'[1]] = Append(ListOf(teams, current_team'[1]), id)
                     /\ \A k \in DOMAIN teams' \ {current_team'[1]} :
                           k \in DOMAIN teams /\ teams'[k] = teams[k]
               /\ (pipeline = "B" /\ current_repo' # None) =>
                     /\ HasKey(repo_access', current_repo'[1])
                     /\ LET old == IF HasKey(repo_access, current_repo'[1])
                                    THEN UsersOf(repo_access, current_repo'[1]) ELSE << >>
                        IN  UsersOf(repo_access', current_repo'[1]) =
                                IF InList(old, id) THEN old ELSE Append(old, id)
                     /\ \A k \in 1..Len(repo_access') :
                           repo_access'[k].name # current_repo'[1] =>
                               k <= Len(repo_access) /\ repo_access'[k] = repo_access[k] ]_vars

\* ------------------------------------------------------------------------
\* C17.  In both parsers, on frames with one column per field: after a row
\* whose group cell names a group and whose member cell is missing, that group
\* is the current group and is a key of the roster.
\* ------------------------------------------------------------------------
EmptyGroupsRegistered ==
    ( /\ pc = "rows"
      /\ index >= 1
      /\ Cardinality(DOMAIN row) = 2
      /\ IsNa(row["GITHUB ID"]) )
    => /\ ( /\ pipeline = "A"
            /\ ~IsNa(row["Team"])
            /\ TeamSearch(Strip(StrOf(row["Team"]))) # None )
          => /\ current_team = Some(IntOf(TeamSearch(Strip(StrOf(row["Team"])))[1]))
             /\ current_team[1] \in DOMAIN teams
       /\ ( /\ pipeline = "B"
            /\ SetsRepo(row["Repository"]) )
          => /\ current_repo = Some(Strip(StrOf(row["Repository"])))
             /\ HasKey(repo_access, current_repo[1])

\* ------------------------------------------------------------------------
\* C18.  Pipeline B, when the run is done: every repository of the roster is
\* in exactly one class: found with every grant successful (counted in
\* successful_repos), found with a failed grant, or not found (once in
\* failed_repos, in roster order); and the numbers the summary prints for the
\* classes add up to the total it prints.
\* ------------------------------------------------------------------------
\* did a grant on the repository name fail: grant_read_access returns False
\* exactly when its add call failed
GrantFailed(name) ==
    \E i \in 1..Len(trace) : IsAdd(trace[i]) /\ trace[i].repo = name /\ Failed(trace[i].res)

LookupFailed(name) ==
    \E i \in 1..Len(trace) :
        trace[i].op = "get_repo" /\ trace[i].repo = name /\ Failed(trace[i].res)

\* the entries of the roster whose lookup failed, in roster order
RECURSIVE FailedNames(_)
FailedNames(k) ==
    IF k > Len(repo_access) THEN << >>
    ELSE (IF LookupFailed(repo_access[k].name) THEN << repo_access[k].name >> ELSE << >>)
         \o FailedNames(k + 1)

\* the sum of the numbers printed by the lines of the summary named in msgs
RECURSIVE Reported(_, _)
Reported(msgs, i) ==
    IF i > Len(trace) THEN 0
    ELSE (IF trace[i].op = "print" /\ trace[i].arg \in msgs THEN IntOf(trace[i].repo) ELSE 0)
         + Reported(msgs, i + 1)

SummaryAccounting ==
    (pipeline = "B" /\ pc = "done") =>
        /\ \A k \in 1..Len(repo_access) :
              Resolved(repo_access[k].name) # LookupFailed(repo_access[k].name)
        /\ successful_repos =
              Cardinality({ k \in 1..Len(repo_access) :
                              /\ Resolved(repo_access[k].name)
                              /\ ~GrantFailed(repo_access[k].name) })
        /\ failed_repos = FailedNames(1)
        /\ Reported({"total"}, 1) = Len(repo_access)
        /\ Reported({"successful", "partial", "failed"}, 1) = Reported({"total"}, 1)

\* ------------------------------------------------------------------------
\* C19.  grant_read_access, for every level the user holds before the call
\* and every outcome of the permission query: when the call returns success
\* the user holds at least read on the repository and no lower level than
\* before the call.
\* ------------------------------------------------------------------------
Rank(l) ==
    CASE l = "none" -> 0
      [] l = "read" -> 1
      [] l = "write" -> 2
      [] l = "maintain" -> 3
      [] l = "admin" -> 4

NeverLowersAccess ==
    [][ ( /\ pipeline = "B"
          /\ pc = "grant"
          /\ Len(trace') > Len(trace)
          /\ result' = TRUE )
        => LET p == << trace'[Len(trace) + 1].repo, trace'[Len(trace) + 1].user >>
           IN  /\ Rank(level'[p]) >= Rank("read")
               /\ Rank(level'[p]) >= Rank(level[p]) ]_vars

\* ------------------------------------------------------------------------
\* C20.  In both pipelines a sleep lies between every add-collaborator call,
\* successful or failed, and the platform call that comes next, and between
\* the resolution of a repository (create_repo, get_repo), successful or
\* failed, and the resolution of the next repository.
\* ------------------------------------------------------------------------
IsResolve(ev) == ev.op \in {"create_repo", "get_repo"}

PauseBetween(i, j) == \E k \in (i + 1)..(j - 1) : trace[k].op = "sleep"

RateLimitPauses ==
    \A i, j \in 1..Len(trace) :
        i < j =>
            /\ (IsAdd(trace[i]) /\ IsWork(trace[j])) => PauseBetween(i, j)
            /\ ( /\ IsResolve(trace[i])
                 /\ IsResolve(trace[j])
                 /\ trace[i].repo # trace[j].repo ) => PauseBetween(i, j)

====
